---------------------------- MODULE Spec2Model ----------------------------
(***************************************************************************)
(* koa-hbs: the render pipeline of src/index.js (template resolution,      *)
(* template/layout caching, layout composition, block accumulation) as a   *)
(* state machine.  One Hbs instance, a fixed filesystem, and request       *)
(* contexts whose render() calls interleave at their await points.         *)
(*                                                                         *)
(* JavaScript strings are TLA+ strings; "a" \o "b" is concatenation.       *)
(* Template sources are kept tokenised: a source is a sequence of parts    *)
(* (text, layout directive, {{{body}}}, contentFor, block), which is what  *)
(* handlebars.compile and rLayoutPattern see in it.                        *)
(***************************************************************************)
EXTENDS Integers, Sequences, FiniteSets, TLC

VARIABLES
    hbs,      \* the Hbs instance: its option fields, caches and block store
    ctx,      \* ctx[c]: a Koa context and the frame of its render() call
    renders,  \* number of render() calls made so far
    ev,       \* what the last step called: filesystem, compile, console.error
    seen,     \* seen[tpl]: has a render of tpl finished, and how (history)
    app       \* the application's middleware() calls and what they produced

vars == <<hbs, ctx, renders, ev, seen, app>>

---------------------------------------------------------------------------
(* Bounds *)

\* render() calls in one behaviour
MaxRenders == 2

\* the request contexts that can be in flight at once
Ctxs == {1, 2}

\* middleware() calls in one behaviour
MaxConfigures == 2

---------------------------------------------------------------------------
(* JavaScript values *)

Undefined == [t |-> "undefined", v |-> ""]
JsFalse   == [t |-> "boolean", v |-> "false"]
Str(s)    == [t |-> "string", v |-> s]
\* null and 0; v is what the value becomes in a string concatenation
JsNull    == [t |-> "object", v |-> "null"]
JsZero    == [t |-> "number", v |-> "0"]

\* the object literal {}
EmptyObj == [k \in {} |-> Undefined]

Obj1(k, val) == [x \in {k} |-> val]

HasOwn(obj, k) == k \in DOMAIN obj

\* obj[k], undefined for a missing key
Get(obj, k) == IF k \in DOMAIN obj THEN obj[k] ELSE Undefined

Put(obj, k, val) == [x \in DOMAIN obj \cup {k} |-> IF x = k THEN val ELSE obj[x]]

\* merge with the precedence the wrong way round: obj1's keys win
mergeLeftWins(obj1, obj2) ==
    [k \in DOMAIN obj2 \cup DOMAIN obj1 |->
        IF k \in DOMAIN obj1 THEN obj1[k] ELSE obj2[k]]

\* merge(obj1, obj2): obj2's keys first, then obj1's keys that c lacks
merge(obj1, obj2) ==
    [k \in DOMAIN obj2 \cup DOMAIN obj1 |->
        IF k \in DOMAIN obj2 THEN obj2[k] ELSE obj1[k]]

---------------------------------------------------------------------------
(* Template sources and the filesystem *)

Text(s)          == [k |-> "text", a |-> s, b |-> ""]
LayoutMark(name) == [k |-> "layout", a |-> name, b |-> ""]
BodySlot         == [k |-> "body", a |-> "", b |-> ""]
ContentFor(n, f) == [k |-> "contentFor", a |-> n, b |-> f]
Block(n, f)      == [k |-> "block", a |-> n, b |-> f]

\* the source '{{{body}}}'
PassthroughSrc == <<BodySlot>>

\* The files on disk: path -> source.
Files ==
    [p \in {"/v2/home.hbs", "/v1/post.hbs", "/v2/post.hbs", "/abs/raw.hbs",
            "/v2/abs/none.hbs",
            "/layouts/main.hbs", "/layouts/blog.hbs",
            "/partials/nav.hbs", "/partials/sub/item.hbs",
            "/broken/x.hbs"} |->
        CASE p = "/v2/home.hbs" ->
                <<Text("<p>home</p>"), ContentFor("head", "h1"),
                  ContentFor("head", "h2")>>
          [] p = "/v1/post.hbs" ->
                <<LayoutMark("blog"), Text("<p>post</p>"),
                  ContentFor("head", "p1")>>
          [] p = "/v2/post.hbs" -> <<Text("<p>old post</p>")>>
          [] p = "/abs/raw.hbs" -> <<Text("raw")>>
          [] p = "/layouts/main.hbs" ->
                <<Text("<main>"), Block("head", "nohead"), BodySlot,
                  Block("head", "again"), Text("</main>")>>
          [] p = "/layouts/blog.hbs" ->
                <<Text("<blog>"), BodySlot, Text("</blog>")>>
          [] p = "/partials/nav.hbs" -> <<Text("nav")>>
          [] p = "/partials/sub/item.hbs" -> <<Text("item")>>
          [] OTHER -> <<Text("x")>>]

\* files that exist but cannot be read
Unreadable == {"/broken/x.hbs"}

\* directories whose listing fails: glob(pattern, {cwd}) rejects
Unlistable == {"/locked"}

\* glob('**/*' + extname, {cwd: root}) resolves
GlobOk(root) == root \notin Unlistable

\* fs.statSync(p) does not throw
StatOk(p) == p \in DOMAIN Files

\* fs.promises.readFile(p) resolves
ReadOk(p) == p \in DOMAIN Files /\ p \notin Unreadable

\* read(filename): the file's source (used only where ReadOk)
read(p) == Files[p]

StartsWith(s, pre) ==
    Len(s) >= Len(pre) /\ SubSeq(s, 1, Len(pre)) = pre

EndsWith(s, suf) ==
    Len(s) >= Len(suf) /\ SubSeq(s, Len(s) - Len(suf) + 1, Len(s)) = suf

\* path.isAbsolute
IsAbsolute(p) == StartsWith(p, "/")

\* path.join(a, b), for the normalised paths used here
PathJoin(a, b) == IF StartsWith(b, "/") THEN a \o b ELSE a \o "/" \o b

\* glob('**/*' + extname, {cwd: root}): the matching files, relative to root
Glob(root, extname) ==
    { SubSeq(p, Len(root) + 2, Len(p)) :
        p \in { q \in DOMAIN Files :
                  StartsWith(q, root \o "/") /\ EndsWith(q, extname) } }

\* rLayoutPattern.test(raw)
HasLayoutMark(raw) == \E i \in 1..Len(raw) : raw[i].k = "layout"

\* rLayoutPattern.exec(raw)[1]: the name in the first directive
LayoutMarkName(raw) ==
    raw[CHOOSE i \in 1..Len(raw) :
            raw[i].k = "layout" /\ \A j \in 1..(i-1) : raw[j].k # "layout"].a

\* handlebars.compile(source)
Compile(src) == [t |-> "function", v |-> src]

\* a template variable that holds undefined
NoFn == [t |-> "undefined", v |-> <<>>]

IsFn(val) == val.t = "function"

---------------------------------------------------------------------------
(* The block store and the execution of a compiled template *)

RECURSIVE Join(_, _)
\* Array.prototype.join
Join(arr, sep) ==
    IF Len(arr) = 0 THEN ""
    ELSE IF Len(arr) = 1 THEN arr[1]
    ELSE arr[1] \o sep \o Join(Tail(arr), sep)

\* this.blocks[name] || []
BlockArr(blocks, name) == IF name \in DOMAIN blocks THEN blocks[name] ELSE <<>>

\* Hbs.prototype.content: push the rendered fragment onto blocks[name]
content(blocks, name, frag) ==
    Put(blocks, name, Append(BlockArr(blocks, name), frag))

\* Hbs.prototype.block: [val, blocks] - the joined fragments, and the
\* store with blocks[name] reset to []
block(blocks, name) ==
    [val |-> Join(BlockArr(blocks, name), "\n"),
     blocks |-> Put(blocks, name, <<>>)]

\* the block helper: block(name), or the fallback content when it is ''
blockHelper(blocks, name, fallback) ==
    LET r == block(blocks, name)
    IN  [val |-> IF r.val = "" THEN fallback ELSE r.val, blocks |-> r.blocks]

\* what a helper call looked like: the helper, the block's name, the
\* array it pushed onto or read, and the string it handled
HelperCall(helper, name, arr, val) ==
    [helper |-> helper, name |-> name, arr |-> arr, val |-> val]

RECURSIVE Exec(_, _, _, _, _)
\* Running a compiled template over its parts: [out, blocks, calls].
\* body is locals.body ('' when unset); the helpers act on the instance's
\* blocks; calls lists the helper calls made, in order.
Exec(parts, body, out, blocks, calls) ==
    IF Len(parts) = 0 THEN [out |-> out, blocks |-> blocks, calls |-> calls]
    ELSE LET p == Head(parts)
         IN  CASE p.k = "text" ->
                    Exec(Tail(parts), body, out \o p.a, blocks, calls)
               [] p.k = "layout" ->
                    Exec(Tail(parts), body, out, blocks, calls)
               [] p.k = "body" ->
                    Exec(Tail(parts), body, out \o body, blocks, calls)
               [] p.k = "contentFor" ->
                    Exec(Tail(parts), body, out, content(blocks, p.a, p.b),
                         Append(calls, HelperCall("contentFor", p.a,
                                          BlockArr(blocks, p.a), p.b)))
               [] p.k = "block" ->
                    LET r == blockHelper(blocks, p.a, p.b)
                    IN  Exec(Tail(parts), body, out \o r.val, r.blocks,
                             Append(calls, HelperCall("block", p.a,
                                              BlockArr(blocks, p.a),
                                              block(blocks, p.a).val)))

\* template(locals, templateOptions) for a compiled template fn
Call(fn, locals, blocks, calls) ==
    Exec(fn.v, IF HasOwn(locals, "body") THEN locals["body"].v ELSE "",
         "", blocks, calls)

---------------------------------------------------------------------------
(* The instance *)

\* new Hbs(): no option field is set yet
HbsNew ==
    [viewPath |-> <<>>, extname |-> "", partialsPath |-> <<>>,
     contentHelperName |-> "", blockHelperName |-> "",
     defaultLayout |-> "", layoutsPath |-> "", locals |-> EmptyObj,
     disableCache |-> FALSE, partialsRegistered |-> FALSE,
     cache |-> EmptyObj, blocks |-> EmptyObj, helpers |-> {},
     partials |-> EmptyObj, pathCache |-> EmptyObj, layoutTemplate |-> NoFn,
     koa |-> 0]

\* options.k || dflt
Opt(o, k, dflt) == IF k \in DOMAIN o THEN o[k] ELSE dflt

\* configure without the viewPath test: every field is assigned
configureUnchecked(h, o) ==
    [h EXCEPT
        !.viewPath = Opt(o, "viewPath", <<>>),
        !.koa = 0,
        !.extname = Opt(o, "extname", ".hbs"),
        !.partialsPath = Opt(o, "partialsPath", <<>>),
        !.contentHelperName = Opt(o, "contentHelperName", "contentFor"),
        !.blockHelperName = Opt(o, "blockHelperName", "block"),
        !.defaultLayout = Opt(o, "defaultLayout", ""),
        !.layoutsPath = Opt(o, "layoutsPath", ""),
        !.locals = Opt(o, "locals", EmptyObj),
        !.disableCache = Opt(o, "disableCache", FALSE),
        !.partialsRegistered = FALSE,
        !.cache = EmptyObj,
        !.blocks = EmptyObj,
        !.helpers = h.helpers \cup {Opt(o, "blockHelperName", "block"),
                                    Opt(o, "contentHelperName", "contentFor")}]

\* !options.viewPath: configure throws BadOptionsError
BadOptions(o) == "viewPath" \notin DOMAIN o

\* Hbs.prototype.configure: the instance it leaves behind.  It throws
\* before its first assignment when the options name no viewPath; the
\* viewPath options used here are arrays.  A fresh templateOptions
\* object holds no data.koa.
configure(h, o) ==
    LET content_ == Opt(o, "contentHelperName", "contentFor")
        block_   == Opt(o, "blockHelperName", "block")
    IN  IF BadOptions(o) THEN h ELSE
        [h EXCEPT
            !.viewPath = o.viewPath,
            !.koa = 0,
            !.extname = Opt(o, "extname", ".hbs"),
            !.partialsPath = Opt(o, "partialsPath", <<>>),
            !.contentHelperName = content_,
            !.blockHelperName = block_,
            !.defaultLayout = Opt(o, "defaultLayout", ""),
            !.layoutsPath = Opt(o, "layoutsPath", ""),
            !.locals = Opt(o, "locals", EmptyObj),
            !.disableCache = Opt(o, "disableCache", FALSE),
            !.partialsRegistered = FALSE,
            !.cache = EmptyObj,
            !.blocks = EmptyObj,
            !.helpers = h.helpers \cup {block_, content_}]

\* Hbs.prototype.getLayoutPath
getLayoutPath(h, layout) ==
    IF h.layoutsPath # "" THEN PathJoin(h.layoutsPath, layout \o h.extname)
    ELSE PathJoin(h.viewPath[1], layout \o h.extname)

\* getTemplatePath with the last matching root winning instead of the first
getTemplatePathLastRoot(h, tpl) ==
    IF HasOwn(h.pathCache, tpl)
    THEN [ret |-> h.pathCache[tpl], pathCache |-> h.pathCache, stats |-> {}]
    ELSE LET at(i) == PathJoin(h.viewPath[i], tpl \o h.extname)
             hits == { i \in 1..Len(h.viewPath) : StatOk(at(i)) }
         IN  IF hits = {}
             THEN [ret |-> Undefined, pathCache |-> h.pathCache,
                   stats |-> { at(i) : i \in 1..Len(h.viewPath) }]
             ELSE LET last == CHOOSE i \in hits : \A j \in hits : i >= j
                  IN  [ret |-> Str(at(last)),
                       pathCache |-> IF ~h.disableCache
                                     THEN Put(h.pathCache, tpl, Str(at(last)))
                                     ELSE h.pathCache,
                       stats |-> { at(i) : i \in 1..Len(h.viewPath) }]

\* Hbs.prototype.getTemplatePath: [ret, pathCache, stats].  ret is the
\* path or undefined, stats the paths statSync was called on.
getTemplatePath(h, tpl) ==
    IF HasOwn(h.pathCache, tpl)
    THEN [ret |-> h.pathCache[tpl], pathCache |-> h.pathCache, stats |-> {}]
    ELSE LET at(i) == PathJoin(h.viewPath[i], tpl \o h.extname)
             hits == { i \in 1..Len(h.viewPath) : StatOk(at(i)) }
         IN  IF hits = {}
             THEN [ret |-> Undefined, pathCache |-> h.pathCache,
                   stats |-> { at(i) : i \in 1..Len(h.viewPath) }]
             ELSE LET first == CHOOSE i \in hits : \A j \in hits : i <= j
                  IN  [ret |-> Str(at(first)),
                       pathCache |-> IF ~h.disableCache
                                     THEN Put(h.pathCache, tpl, Str(at(first)))
                                     ELSE h.pathCache,
                       stats |-> { at(i) : i \in 1..first }]


\* Hbs.prototype.loadLayoutFile: the file it reads
loadLayoutFile(h, layout) == getLayoutPath(h, layout)

---------------------------------------------------------------------------
(* Inputs *)

\* template names passed to render()
Tpls == {"home", "post", "/abs/raw", "nope"}

\* names that resolve to no template file, relative and absolute
\* (/abs/none.hbs does not exist; /v2/abs/none.hbs does)
TplsEdge == {"home", "post", "nope", "/abs/none"}

\* every name render() is called with
Names == Tpls \cup TplsEdge

\* what render() is called with: the call-site data and the request's
\* ctx.state
CallSet ==
    { [data |-> EmptyObj, state |-> EmptyObj],
      [data |-> Obj1("layout", JsFalse), state |-> EmptyObj],
      [data |-> Obj1("layout", Str("blog")),
       state |-> Obj1("title", Str("state"))],
      [data |-> Obj1("layout", Str("gone")), state |-> EmptyObj],
      [data |-> Obj1("title", Str("call")),
       state |-> Obj1("title", Str("state"))] }

\* calls whose layout field is absent or one of the falsy values
CallsEdge ==
    { [data |-> EmptyObj, state |-> EmptyObj] }
    \cup { [data |-> Obj1("layout", val), state |-> EmptyObj] :
             val \in {JsFalse, Str(""), JsNull, JsZero} }

\* names and calls for the runs that vary the configuration instead
TplsFew == {"home", "post"}

CallsFew ==
    { [data |-> EmptyObj, state |-> EmptyObj],
      [data |-> Obj1("layout", JsFalse), state |-> EmptyObj] }

\* options that differ in where the partials are: a root that registers,
\* one with an unreadable file, one that cannot be listed, two roots
OptionsPartials ==
    { [viewPath |-> <<"/v1", "/v2">>, layoutsPath |-> "/layouts",
       partialsPath |-> pp, defaultLayout |-> "main", disableCache |-> dc] :
        pp \in {<<"/partials">>, <<"/broken">>, <<"/locked">>,
                <<"/partials", "/broken">>},
        dc \in BOOLEAN }

\* options for an instance that is configured more than once: two view
\* root lists with different default layouts, and one without viewPath
OptionsConf ==
    { [viewPath |-> <<"/v1", "/v2">>, layoutsPath |-> "/layouts",
       partialsPath |-> <<"/partials">>, defaultLayout |-> "main"],
      [viewPath |-> <<"/v2">>, layoutsPath |-> "/layouts"],
      [layoutsPath |-> "/layouts", defaultLayout |-> "main"] }

\* the options middleware() is called with
OptionSet ==
    { [viewPath |-> <<"/v1", "/v2">>, layoutsPath |-> "/layouts",
       locals |-> Obj1("title", Str("global")),
       partialsPath |-> <<>>, defaultLayout |-> dl, disableCache |-> dc] :
        dl \in {"", "main", "gone"}, dc \in BOOLEAN }
    \cup
    { [viewPath |-> <<"/v1", "/v2">>, layoutsPath |-> "/layouts",
       locals |-> Obj1("title", Str("global")),
       partialsPath |-> pp, defaultLayout |-> "main", disableCache |-> dc] :
        pp \in {<<"/partials">>, <<"/broken">>}, dc \in BOOLEAN }

---------------------------------------------------------------------------
(* The frame of a render() call *)

IdleCtx ==
    [pc |-> "idle", tpl |-> "", data |-> EmptyObj, state |-> EmptyObj,
     locals |-> EmptyObj, tplPath |-> Undefined, layout |-> Undefined,
     template |-> NoFn, layoutTemplate |-> NoFn, body |-> Undefined,
     error |-> "", extra |-> Undefined, koa |-> 0, first |-> "new",
     calls |-> <<>>]

\* A step in progress: the instance, the frame, and the calls made so far.
Mach(h, x, ops) == [h |-> h, x |-> x, ops |-> ops]

\* an exception leaves render(): the returned promise rejects
Throw(m, err) == [m EXCEPT !.x.pc = "failed", !.x.error = err]

\* an exception that carries a value: MissingTemplateError's extra, the
\* path of a failed readFile
ThrowWith(m, err, extra) ==
    [m EXCEPT !.x.pc = "failed", !.x.error = err, !.x.extra = extra]

\* the context published only while none is: data.koa is set once
PublishKoaOnce(h, c) == IF h.koa = 0 THEN [h EXCEPT !.koa = c] ELSE h

\* render, lines 154-155: templateOptions.data.koa becomes this request's
\* context
PublishKoa(h, c) == [h EXCEPT !.koa = c]

\* render with an await between the body render and the layout render:
\* the first run stops after the body, the next one renders the layout
RenderSyncAwaitBetween(m, c) ==
    IF ~HasOwn(m.x.locals, "body")
    THEN LET h1 == PublishKoa(m.h, c)
             b  == Call(m.x.template, m.x.locals, h1.blocks, <<>>)
         IN  [m EXCEPT !.h = [h1 EXCEPT !.blocks = b.blocks],
                       !.x.koa = h1.koa,
                       !.x.locals = Put(@, "body", Str(b.out)),
                       !.x.calls = b.calls, !.x.pc = "ready"]
    ELSE IF ~IsFn(m.x.layoutTemplate) THEN Throw(m, "TypeError")
    ELSE LET l == Call(m.x.layoutTemplate, m.x.locals, m.h.blocks, m.x.calls)
         IN  [m EXCEPT !.h.blocks = l.blocks, !.x.calls = l.calls,
                       !.x.body = Str(l.out), !.x.pc = "done"]

\* render, lines 154-158: publish the context to the helpers, run the
\* body, then the layout, and assign the response body.  Calling an
\* undefined layoutTemplate throws a TypeError after the body has run.
\* The frame's koa is the data.koa both template calls were handed.
RenderSync(m, c) ==
    LET h1 == PublishKoa(m.h, c)
        b  == Call(m.x.template, m.x.locals, h1.blocks, <<>>)
        l1 == Put(m.x.locals, "body", Str(b.out))
        l  == Call(m.x.layoutTemplate, l1, b.blocks, b.calls)
    IN  IF ~IsFn(m.x.layoutTemplate)
        THEN Throw([m EXCEPT !.h = [h1 EXCEPT !.blocks = b.blocks],
                             !.x.koa = h1.koa,
                             !.x.locals = l1, !.x.calls = b.calls],
                   "TypeError")
        ELSE [m EXCEPT !.h = [h1 EXCEPT !.blocks = l.blocks],
                       !.x.koa = h1.koa,
                       !.x.locals = l1, !.x.calls = l.calls,
                       !.x.body = Str(l.out), !.x.pc = "done"]

\* Hbs.prototype.cacheLayout() up to its await: either the passthrough
\* template is compiled at once, or the default layout's file is read.
cacheLayout(m) ==
    IF m.h.defaultLayout = ""
    THEN [m EXCEPT !.x.pc = "dlPass", !.ops = @ \cup {<<"compile", "{{{body}}}">>}]
    ELSE [m EXCEPT !.x.pc = "dlRead",
                   !.ops = @ \cup {<<"readFile",
                                     loadLayoutFile(m.h, m.h.defaultLayout)>>}]

\* Hbs.prototype.getLayoutTemplate() up to its first await
getLayoutTemplate(m) ==
    IF m.h.disableCache \/ ~IsFn(m.h.layoutTemplate)
    THEN cacheLayout(m)
    ELSE [m EXCEPT !.x.layoutTemplate = m.h.layoutTemplate, !.x.pc = "ready"]

\* render, lines 147-152: pick the compiled pair out of the cache
FromCache(m, c) ==
    LET e  == m.h.cache[m.x.tpl]
        m1 == [m EXCEPT !.x.template = e.template,
                        !.x.layoutTemplate = e.layoutTemplate]
    IN  IF ~IsFn(e.layoutTemplate) THEN getLayoutTemplate(m1)
        ELSE RenderSync(m1, c)

\* the cached entry reused whenever there is one, disableCache or not
LoadTemplateIfUncached(m, c) ==
    IF ~HasOwn(m.h.cache, m.x.tpl)
    THEN [m EXCEPT !.x.pc = "readTpl",
                   !.ops = @ \cup {<<"readFile", m.x.tplPath.v>>}]
    ELSE FromCache(m, c)

\* render, lines 130-131: reuse the cached entry or start reading the file
LoadTemplate(m, c) ==
    IF m.h.disableCache \/ ~HasOwn(m.h.cache, m.x.tpl)
    THEN [m EXCEPT !.x.pc = "readTpl",
                   !.ops = @ \cup {<<"readFile", m.x.tplPath.v>>}]
    ELSE FromCache(m, c)

\* render, lines 132-145, once the template file has been read
CompileTemplate(m, c) ==
    LET raw == read(m.x.tplPath.v)
        m1  == [m EXCEPT
                  !.h.cache = Put(@, m.x.tpl,
                                  [template |-> Compile(raw),
                                   layoutTemplate |-> NoFn]),
                  !.ops = @ \cup {<<"compile", m.x.tplPath.v>>}]
        layout == IF HasOwn(m.x.locals, "layout") THEN m.x.locals["layout"]
                  ELSE Str(LayoutMarkName(raw))
    IN  IF ~ReadOk(m.x.tplPath.v)
        THEN ThrowWith(m, "ENOENT", m.x.tplPath)
        ELSE IF HasOwn(m.x.locals, "layout") \/ HasLayoutMark(raw)
        THEN IF layout # JsFalse
             THEN [m1 EXCEPT
                     !.x.layout = layout, !.x.pc = "readLayout",
                     !.ops = @ \cup {<<"readFile",
                                       loadLayoutFile(m.h, layout.v)>>}]
             ELSE FromCache(
                     [m1 EXCEPT
                        !.h.cache[m.x.tpl].layoutTemplate =
                            Compile(PassthroughSrc),
                        !.ops = @ \cup {<<"compile", "{{{body}}}">>}], c)
        ELSE FromCache(m1, c)

\* render, lines 139-140, once the named layout's file has been read
CompileLayout(m, c) ==
    LET file == loadLayoutFile(m.h, m.x.layout.v)
    IN  IF ~ReadOk(file) THEN ThrowWith(m, "ENOENT", Str(file))
        ELSE IF ~HasOwn(m.h.cache, m.x.tpl) THEN Throw(m, "TypeError")
        ELSE FromCache(
                [m EXCEPT
                   !.h.cache[m.x.tpl].layoutTemplate = Compile(read(file)),
                   !.ops = @ \cup {<<"compile", file>>}], c)

\* Hbs.prototype.registerPartials up to its first await: one glob per root
registerPartials(m) ==
    [m EXCEPT !.x.pc = IF Len(m.h.partialsPath) = 0 THEN "noGlob" ELSE "glob",
              !.ops = @ \cup { <<"glob", m.h.partialsPath[i]>> :
                                 i \in 1..Len(m.h.partialsPath) }]

\* files.push(path.join(partialsPath[i], file)) over every glob result
PartialFiles(h) ==
    UNION { { <<h.partialsPath[i], f>> :
                f \in Glob(h.partialsPath[i], h.extname) } :
            i \in 1..Len(h.partialsPath) }

\* the file a glob result names
PartialPath(pf) == PathJoin(pf[1], pf[2])

\* file.slice(0, -1 * extname.length): the name a partial registers under
PartialName(h, pf) == SubSeq(pf[2], 1, Len(pf[2]) - Len(h.extname))

\* registerPartial(names[i], partials[i]) for every file read
RegisteredPartials(h, pfs) ==
    [n \in { PartialName(h, pf) : pf \in pfs } |->
        read(PartialPath(CHOOSE pf \in pfs : PartialName(h, pf) = n))]

\* registerPartials after the globs: nothing to do for no roots; a
\* rejected glob is logged and render goes on; else every file found is
\* read
ReadPartials(m, c) ==
    IF Len(m.h.partialsPath) = 0 THEN LoadTemplate(m, c)
    ELSE IF \E i \in 1..Len(m.h.partialsPath) : ~GlobOk(m.h.partialsPath[i])
    THEN LoadTemplate(
            [m EXCEPT !.ops = @ \cup {<<"console.error", "partials">>}], c)
    ELSE [m EXCEPT !.x.pc = IF PartialFiles(m.h) = {} THEN "noReads"
                               ELSE "readPartials",
                   !.ops = @ \cup { <<"readFile", PartialPath(pf)>> :
                                      pf \in PartialFiles(m.h) }]

\* the flag raised whether or not the reads succeeded
StorePartialsFlagAlways(m, c) ==
    LET pfs == PartialFiles(m.h)
    IN  LoadTemplate(
            [m EXCEPT
               !.h.partialsRegistered = TRUE,
               !.ops = @ \cup IF \E pf \in pfs : ~ReadOk(PartialPath(pf))
                              THEN {<<"console.error", "partials">>}
                              ELSE {}], c)

\* registerPartials after the reads: register them all and raise the
\* flag, or log the failure and leave the flag alone; render goes on
\* either way
StorePartials(m, c) ==
    LET pfs == PartialFiles(m.h)
    IN  IF \E pf \in pfs : ~ReadOk(PartialPath(pf))
        THEN LoadTemplate([m EXCEPT !.ops = @ \cup {<<"console.error", "partials">>}], c)
        ELSE LoadTemplate(
                [m EXCEPT
                   !.h.partials = merge(@, RegisteredPartials(m.h, pfs)),
                   !.h.partialsRegistered = TRUE], c)

\* default layout, after cacheLayout's await: compile what was read, or
\* log and yield undefined; getLayoutTemplate stores and returns it
StoreDefaultLayout(m) ==
    LET file == loadLayoutFile(m.h, m.h.defaultLayout)
        res  == IF m.x.pc = "dlPass" THEN Compile(PassthroughSrc)
                ELSE IF ReadOk(file) THEN Compile(read(file))
                ELSE NoFn
        op   == IF m.x.pc = "dlPass" THEN {}
                ELSE IF ReadOk(file) THEN {<<"compile", file>>}
                ELSE {<<"console.error", file>>}
    IN  [m EXCEPT !.h.layoutTemplate = res, !.x.layoutTemplate = res,
                  !.x.pc = "ready", !.ops = @ \cup op]

\* render, lines 113-128: resolve the path, merge the data, and start
\* partial registration when it is due.  configure stores an array for
\* partialsPath ('' becomes []), so partialsPath !== '' always holds.
Enter(h, c, tpl, data, st, first) ==
    LET g  == getTemplatePath(h, tpl)
        tplPath == IF IsAbsolute(tpl) THEN Str(tpl \o h.extname) ELSE g.ret
        locals == merge(h.locals, merge(st, data))
        m  == Mach([h EXCEPT !.pathCache = g.pathCache],
                   [IdleCtx EXCEPT !.pc = "entered", !.tpl = tpl,
                                   !.data = data, !.state = st,
                                   !.tplPath = tplPath, !.first = first],
                   { <<"stat", p>> : p \in g.stats })
        m1 == [m EXCEPT !.x.locals = locals]
    IN  IF tplPath = Undefined
        THEN ThrowWith(m, "MissingTemplateError", tplPath)
        ELSE IF h.disableCache \/ ~h.partialsRegistered
        THEN registerPartials(m1)
        ELSE LoadTemplate(m1, c)

---------------------------------------------------------------------------
(* The state machine *)

Init ==
    /\ \E o \in OptionSet :
          /\ hbs = configure(HbsNew, o)
          /\ app = [render |-> TRUE, error |-> "", calls |-> 1, options |-> o]
    /\ ctx = [c \in Ctxs |-> IdleCtx]
    /\ renders = 0
    /\ ev = [by |-> 0, ops |-> {}]
    /\ seen = [t \in Names |-> "new"]

InFlight(c) == ctx[c].pc \notin {"idle", "done", "failed"}

\* The awaits that no I/O stands behind: the awaited promise is already
\* resolved (Promise.all of nothing, an async function that returned
\* without awaiting I/O), so the continuation is a queued microtask.
MicrotaskPcs == {"noGlob", "noReads", "dlPass", "ready"}

\* Node drains the microtask queue before it runs the next I/O callback.
IoCallbackMayRun == \A c \in Ctxs : ctx[c].pc \notin MicrotaskPcs

\* The outcome of a step of context c.
Commit(c, m) ==
    /\ hbs' = m.h
    /\ ctx' = [ctx EXCEPT ![c] = m.x]
    /\ ev' = [by |-> c, ops |-> m.ops]
    /\ seen' = IF m.x.pc = "done" THEN [seen EXCEPT ![m.x.tpl] = "ok"]
               ELSE IF m.x.pc = "failed" /\ seen[m.x.tpl] = "new"
               THEN [seen EXCEPT ![m.x.tpl] = "failed"]
               ELSE seen
    /\ UNCHANGED app

Here(c) == Mach(hbs, ctx[c], {})

\* ctx.render(tpl, data) on a fresh request context.  A request is
\* served from an I/O callback of its own.
RenderWith(c, tpls, calls) ==
    /\ app.render
    /\ renders < MaxRenders
    /\ IoCallbackMayRun
    /\ ~InFlight(c)
    /\ \A d \in Ctxs : d < c => InFlight(d)
    /\ renders' = renders + 1
    /\ \E tpl \in tpls, call \in calls :
          Commit(c, Enter(hbs, c, tpl, call.data, call.state, seen[tpl]))

Render(c) == RenderWith(c, Tpls, CallSet)

\* the globs of registerPartials have settled
AfterGlob(c) ==
    /\ \/ ctx[c].pc = "noGlob"
       \/ ctx[c].pc = "glob" /\ IoCallbackMayRun
    /\ Commit(c, ReadPartials(Here(c), c))
    /\ UNCHANGED renders

\* the reads of registerPartials have settled
AfterPartials(c) ==
    /\ \/ ctx[c].pc = "noReads"
       \/ ctx[c].pc = "readPartials" /\ IoCallbackMayRun
    /\ Commit(c, StorePartials(Here(c), c))
    /\ UNCHANGED renders

\* read(tplPath) has settled
AfterReadTemplate(c) ==
    /\ ctx[c].pc = "readTpl"
    /\ IoCallbackMayRun
    /\ Commit(c, CompileTemplate(Here(c), c))
    /\ UNCHANGED renders

\* loadLayoutFile(layout) has settled
AfterReadLayout(c) ==
    /\ ctx[c].pc = "readLayout"
    /\ IoCallbackMayRun
    /\ Commit(c, CompileLayout(Here(c), c))
    /\ UNCHANGED renders

\* cacheLayout() has settled
AfterDefaultLayout(c) ==
    /\ \/ ctx[c].pc = "dlPass"
       \/ ctx[c].pc = "dlRead" /\ IoCallbackMayRun
    /\ Commit(c, StoreDefaultLayout(Here(c)))
    /\ UNCHANGED renders

\* getLayoutTemplate() has settled: render runs the templates
AfterLayoutTemplate(c) ==
    /\ ctx[c].pc = "ready"
    /\ Commit(c, RenderSync(Here(c), c))
    /\ UNCHANGED renders

Next ==
    \E c \in Ctxs :
        \/ Render(c)
        \/ AfterGlob(c)
        \/ AfterPartials(c)
        \/ AfterReadTemplate(c)
        \/ AfterReadLayout(c)
        \/ AfterDefaultLayout(c)
        \/ AfterLayoutTemplate(c)

Spec == Init /\ [][Next]_vars

\* an instance configured with one of the partials options
InitPartials ==
    /\ \E o \in OptionsPartials :
          /\ hbs = configure(HbsNew, o)
          /\ app = [render |-> TRUE, error |-> "", calls |-> 1, options |-> o]
    /\ ctx = [c \in Ctxs |-> IdleCtx]
    /\ renders = 0
    /\ ev = [by |-> 0, ops |-> {}]
    /\ seen = [t \in Names |-> "new"]

RenderFew(c) == RenderWith(c, TplsFew, CallsFew)

NextPartials ==
    \E c \in Ctxs :
        \/ RenderFew(c)
        \/ AfterGlob(c)
        \/ AfterPartials(c)
        \/ AfterReadTemplate(c)
        \/ AfterReadLayout(c)
        \/ AfterDefaultLayout(c)
        \/ AfterLayoutTemplate(c)

SpecPartials == InitPartials /\ [][NextPartials]_vars

\* require('koa-hbs'): the shared instance, before any middleware() call
InitNew ==
    /\ hbs = HbsNew
    /\ app = [render |-> FALSE, error |-> "", calls |-> 0,
              options |-> EmptyObj]
    /\ ctx = [c \in Ctxs |-> IdleCtx]
    /\ renders = 0
    /\ ev = [by |-> 0, ops |-> {}]
    /\ seen = [t \in Names |-> "new"]

\* hbs.middleware(options), called while the application is set up: no
\* render is in flight.  configure runs first; createRenderer and the
\* returned middleware exist only if it did not throw.
Middleware(o) ==
    /\ app.calls < MaxConfigures
    /\ \A c \in Ctxs : ~InFlight(c)
    /\ hbs' = configure(hbs, o)
    /\ app' = IF BadOptions(o)
              THEN [app EXCEPT !.error = "BadOptionsError",
                               !.calls = @ + 1, !.options = o]
              ELSE [render |-> TRUE, error |-> "", calls |-> app.calls + 1,
                    options |-> o]
    /\ ev' = [by |-> 0, ops |-> {}]
    /\ UNCHANGED <<ctx, renders, seen>>

NextConf ==
    \/ \E o \in OptionsConf : Middleware(o)
    \/ \E c \in Ctxs :
          \/ RenderFew(c)
          \/ AfterGlob(c)
          \/ AfterPartials(c)
          \/ AfterReadTemplate(c)
          \/ AfterReadLayout(c)
          \/ AfterDefaultLayout(c)
          \/ AfterLayoutTemplate(c)

SpecConf == InitNew /\ [][NextConf]_vars

\* render() called with the names and the layout values of the edge cases
RenderEdge(c) == RenderWith(c, TplsEdge, CallsEdge)

NextEdge ==
    \E c \in Ctxs :
        \/ RenderEdge(c)
        \/ AfterGlob(c)
        \/ AfterPartials(c)
        \/ AfterReadTemplate(c)
        \/ AfterReadLayout(c)
        \/ AfterDefaultLayout(c)
        \/ AfterLayoutTemplate(c)

SpecEdge == Init /\ [][NextEdge]_vars

---------------------------------------------------------------------------
(* Vocabulary of the properties *)

Done(c) == ctx[c].pc = "done"

Finished(c) == ctx[c].pc \in {"done", "failed"}

\* the render got as far as loading its template
Loaded(c) ==
    /\ ctx[c].pc # "idle"
    /\ ctx[c].error # "MissingTemplateError"
    /\ ReadOk(ctx[c].tplPath.v)

\* the output of the template's own body render
RawBody(c) == ctx[c].locals["body"]

\* the layout field of a render's merged data, undefined when it has none
LayoutField(c) == Get(ctx[c].locals, "layout")

\* the layout a render's own inputs ask for: the data's layout field,
\* else the template's directive, else undefined
EffectiveLayout(c) ==
    IF HasOwn(ctx[c].locals, "layout") THEN ctx[c].locals["layout"]
    ELSE IF HasLayoutMark(read(ctx[c].tplPath.v))
    THEN Str(LayoutMarkName(read(ctx[c].tplPath.v)))
    ELSE Undefined

NamesLayout(val) == val.t = "string"

LayoutReadable(name) == ReadOk(getLayoutPath(hbs, name))

\* the compiled layout file of that name
NamedLayout(name) == Compile(read(getLayoutPath(hbs, name)))

\* the layout template a render of these inputs applies on an instance
\* that renders nothing else; undefined where that render fails
LayoutAlone(c) ==
    LET eff == EffectiveLayout(c)
    IN  IF eff = JsFalse THEN Compile(PassthroughSrc)
        ELSE IF NamesLayout(eff)
        THEN IF LayoutReadable(eff.v) THEN NamedLayout(eff.v) ELSE NoFn
        ELSE IF hbs.defaultLayout = "" THEN Compile(PassthroughSrc)
        ELSE IF LayoutReadable(hbs.defaultLayout)
        THEN NamedLayout(hbs.defaultLayout)
        ELSE NoFn

\* the cache entry such a render stores
EntryAlone(c) ==
    LET eff == EffectiveLayout(c)
    IN  [template |-> Compile(read(ctx[c].tplPath.v)),
         layoutTemplate |->
            IF eff = JsFalse THEN Compile(PassthroughSrc)
            ELSE IF NamesLayout(eff) /\ LayoutReadable(eff.v)
            THEN NamedLayout(eff.v)
            ELSE NoFn]

\* a template file exists for the name: <name><ext> itself for an
\* absolute name, <root>/<name><ext> under some view root otherwise
TemplateExists(h, tpl) ==
    IF IsAbsolute(tpl) THEN StatOk(tpl \o h.extname)
    ELSE \E i \in 1..Len(h.viewPath) :
            StatOk(PathJoin(h.viewPath[i], tpl \o h.extname))

\* the values that name the template a render attempted
AttemptedNames(h, tpl) ==
    {Str(tpl), Str(tpl \o h.extname)}
    \cup { Str(PathJoin(h.viewPath[i], tpl \o h.extname)) :
             i \in 1..Len(h.viewPath) }

\* <root>/<name><ext> under the i-th view root
UnderRoot(h, i, tpl) == PathJoin(h.viewPath[i], tpl \o h.extname)

\* the path of a relative name under the instance's present options: the
\* file under the lowest-indexed view root that has one, else undefined
Resolution(h, tpl) ==
    IF \E i \in 1..Len(h.viewPath) : StatOk(UnderRoot(h, i, tpl))
    THEN Str(UnderRoot(h, CHOOSE i \in 1..Len(h.viewPath) :
                            /\ StatOk(UnderRoot(h, i, tpl))
                            /\ \A j \in 1..(i - 1) :
                                  ~StatOk(UnderRoot(h, j, tpl)), tpl))
    ELSE Undefined

\* the default layout of the instance's present options, compiled
DefaultLayoutOf(h) ==
    IF h.defaultLayout = "" THEN Compile(PassthroughSrc)
    ELSE IF ReadOk(getLayoutPath(h, h.defaultLayout))
    THEN Compile(read(getLayoutPath(h, h.defaultLayout)))
    ELSE NoFn

\* context c took a step
Stepped(c) == ctx'[c] # ctx[c]

\* a registration pass on this instance fails at its listing
ListingFails(h) ==
    \E i \in 1..Len(h.partialsPath) : ~GlobOk(h.partialsPath[i])

\* a registration pass on this instance fails at its reads
ReadingFails(h) ==
    ~ListingFails(h) /\ \E pf \in PartialFiles(h) : ~ReadOk(PartialPath(pf))

\* the frame has left the registration pass behind
PastRegistration(x) ==
    /\ x.pc \notin {"idle", "entered", "glob", "noGlob", "readPartials",
                    "noReads"}
    /\ x.error # "MissingTemplateError"

\* the frame is in its registration pass
Registering(x) == x.pc \in {"glob", "noGlob", "readPartials", "noReads"}

\* calls[j] is the first call after calls[i] on the same block
NextOnBlock(calls, i, j) ==
    /\ i < j
    /\ calls[j].name = calls[i].name
    /\ \A k \in (i + 1)..(j - 1) : calls[k].name # calls[i].name

\* what a helper call leaves in the array it handled
LeftBy(e) == IF e.helper = "contentFor" THEN Append(e.arr, e.val) ELSE <<>>

\* the falsy values a layout field can hold
Falsy(val) == val \in {JsFalse, Str(""), JsNull, JsZero}

\* the filesystem and compile calls among ops
FsOrCompile(ops) ==
    { o \in ops : o[1] \in {"stat", "readFile", "glob", "compile"} }

\* the fragments contributed to block name by calls[from..to]
Contributed(calls, from, to, name) ==
    LET sel == SelectSeq(SubSeq(calls, from, to),
                         LAMBDA e : e.helper = "contentFor" /\ e.name = name)
    IN  [k \in 1..Len(sel) |-> sel[k].val]

\* the retrievals of block name among calls[1..i-1]
EarlierRetrievals(calls, i, name) ==
    { j \in 1..(i-1) : calls[j].helper = "block" /\ calls[j].name = name }

---------------------------------------------------------------------------
(* Properties *)

\* C1: with caching enabled, a render of a name that started after a
\* render of that name had completed successfully makes no filesystem
\* call (stat, readFile, glob) and no compile call in any of its steps.
C1_NoFsAfterFirstSuccess ==
    \A c \in Ctxs :
        (~hbs.disableCache /\ ev.by = c /\ ctx[c].first = "ok")
            => FsOrCompile(ev.ops) = {}

\* C2: every render whose merged data has layout === false, once it has
\* loaded its template and run, has assigned the raw body render as the
\* response body.
C2_LayoutFalseIsRawBody ==
    \A c \in Ctxs :
        (/\ LayoutField(c) = JsFalse
         /\ (Done(c) \/ ctx[c].error = "TypeError"))
            => (Done(c) /\ ctx[c].body = RawBody(c))

\* C3: in every completed render, an explicit layout name in the merged
\* data is the layout applied, and the layout of the template's directive
\* is applied only if the merged data has no layout field.
C3_ExplicitLayoutWins ==
    \A c \in Ctxs :
        (Done(c) /\ HasOwn(ctx[c].locals, "layout"))
            => LET eff == LayoutField(c)
                   raw == read(ctx[c].tplPath.v)
               IN  /\ (NamesLayout(eff) /\ LayoutReadable(eff.v))
                         => ctx[c].layoutTemplate = NamedLayout(eff.v)
                   /\ (HasLayoutMark(raw) /\ eff # Str(LayoutMarkName(raw)))
                         => ctx[c].layoutTemplate #
                                NamedLayout(LayoutMarkName(raw))

\* C4: in every completed render of a template with no directive and
\* with no layout field in the merged data, the configured default layout
\* is the layout applied, and with no default layout configured the
\* response body is the raw body render.
C4_DefaultLayoutFallback ==
    \A c \in Ctxs :
        (/\ Done(c)
         /\ ~HasOwn(ctx[c].locals, "layout")
         /\ ~HasLayoutMark(read(ctx[c].tplPath.v)))
            => /\ (hbs.defaultLayout # "" /\ LayoutReadable(hbs.defaultLayout))
                     => ctx[c].layoutTemplate = NamedLayout(hbs.defaultLayout)
               /\ hbs.defaultLayout = "" => ctx[c].body = RawBody(c)

\* C5: in every completed render, the first retrieval of a block returns
\* the fragments the render contributed to it, in order, joined by a
\* newline, and every later retrieval of that block returns ''.
C5_BlockRetrievedOnce ==
    \A c \in Ctxs :
        Done(c) =>
            \A i \in 1..Len(ctx[c].calls) :
                LET e == ctx[c].calls[i]
                IN  e.helper = "block" =>
                        IF EarlierRetrievals(ctx[c].calls, i, e.name) = {}
                        THEN e.val = Join(Contributed(ctx[c].calls, 1, i - 1,
                                                      e.name), "\n")
                        ELSE e.val = ""

\* C6: every block retrieval of a render reads only fragments that the
\* same render contributed: the array it reads is what the render pushed
\* since its previous retrieval of that block.
C6_BlocksScopedToRender ==
    \A c \in Ctxs :
        Finished(c) =>
            \A i \in 1..Len(ctx[c].calls) :
                LET e    == ctx[c].calls[i]
                    prev == EarlierRetrievals(ctx[c].calls, i, e.name)
                    from == IF prev = {} THEN 1
                            ELSE 1 + CHOOSE j \in prev : \A k \in prev : k <= j
                IN  e.helper = "block" =>
                        e.arr = Contributed(ctx[c].calls, from, i - 1, e.name)

\* C7: with caching enabled, a render that started before any render of
\* its name had finished applies the layout it would apply running alone,
\* and once two such renders with the same inputs have both finished the
\* cache entry is the one a render running alone stores.
C7_RacesConverge ==
    \A c \in Ctxs :
        (~hbs.disableCache /\ Loaded(c) /\ ctx[c].first = "new")
            => /\ Done(c) => ctx[c].layoutTemplate = LayoutAlone(c)
               /\ \A d \in Ctxs \ {c} :
                     (/\ Finished(c) /\ Finished(d)
                      /\ ctx[d].first = "new"
                      /\ ctx[d].tpl = ctx[c].tpl
                      /\ ctx[d].locals = ctx[c].locals
                      /\ HasOwn(hbs.cache, ctx[c].tpl))
                        => hbs.cache[ctx[c].tpl] = EntryAlone(c)

\* C8: in every render that merged its data, a key of the call-site data
\* has the call-site value, a key of the request state that the call-site
\* data lacks has the request-state value, and a key of the global locals
\* that both lack has the global value.
C8_DataPrecedence ==
    \A c \in Ctxs :
        (ctx[c].pc # "idle" /\ ctx[c].error # "MissingTemplateError")
            => LET x == ctx[c]
               IN  /\ \A k \in DOMAIN x.data : x.locals[k] = x.data[k]
                   /\ \A k \in DOMAIN x.state \ DOMAIN x.data :
                         x.locals[k] = x.state[k]
                   /\ \A k \in DOMAIN hbs.locals \
                                 (DOMAIN x.data \cup DOMAIN x.state) :
                         x.locals[k] = hbs.locals[k]

\* C8 witness: a completed render whose call-site data, request state and
\* global locals all hold the key title, resolved to the call-site value.
C8_Witness ==
    \E c \in Ctxs :
        /\ Done(c)
        /\ HasOwn(ctx[c].data, "title")
        /\ HasOwn(ctx[c].state, "title")
        /\ HasOwn(hbs.locals, "title")
        /\ ctx[c].data["title"] # ctx[c].state["title"]
        /\ ctx[c].state["title"] # hbs.locals["title"]
        /\ ctx[c].locals["title"] = ctx[c].data["title"]

\* C9: when the configured default layout cannot be loaded, the step that
\* finds this out logs the failure, and a render waiting for the default
\* layout then completes with the raw body render as its response body.
C9_DefaultLayoutFailureIsPassthrough ==
    [][\A c \in Ctxs :
          (/\ hbs.defaultLayout # ""
           /\ ~LayoutReadable(hbs.defaultLayout)
           /\ ctx'[c] # ctx[c])
             => /\ ctx[c].pc = "dlRead"
                     => \E o \in ev'.ops : o[1] = "console.error"
                /\ ctx[c].pc = "ready"
                     => (ctx'[c].pc = "done" /\ ctx'[c].body = RawBody(c)')]_vars

\* C10: every render whose effective layout (the data's layout name, else
\* the template's directive) names a layout file that cannot be read
\* fails and assigns no response body.
C10_MissingLayoutIsFatal ==
    \A c \in Ctxs :
        (/\ Finished(c) /\ Loaded(c)
         /\ NamesLayout(EffectiveLayout(c))
         /\ ~LayoutReadable(EffectiveLayout(c).v))
            => (ctx[c].pc = "failed" /\ ctx[c].body = Undefined)

\* C11: a render of a name for which no template file exists fails in its
\* first step with a MissingTemplateError that carries the attempted name
\* or path, and no step of it reads a file, writes the entry cache or the
\* path cache, or assigns a response body.
C11_MissingTemplateFailsClean ==
    [][\A c \in Ctxs :
          (Stepped(c) /\ ~TemplateExists(hbs, ctx'[c].tpl))
             => /\ ctx'[c].pc = "failed"
                /\ ctx'[c].error = "MissingTemplateError"
                /\ ctx'[c].extra \in AttemptedNames(hbs, ctx'[c].tpl)
                /\ \A o \in ev'.ops : o[1] # "readFile"
                /\ hbs'.cache = hbs.cache
                /\ hbs'.pathCache = hbs.pathCache
                /\ ctx'[c].body = Undefined]_vars

\* C12: the step in which a registration pass fails (a rejected listing,
\* a rejected read) logs the failure, leaves the registered flag false
\* and does not fail the render; and once a render has been through a
\* failed pass, every render that starts runs the listing again.
C12_FailedRegistrationRetried ==
    [][\A c \in Ctxs :
          /\ (/\ Stepped(c)
              /\ \/ ctx[c].pc = "glob" /\ ListingFails(hbs)
                 \/ ctx[c].pc = "readPartials" /\ ReadingFails(hbs))
                => /\ \E o \in ev'.ops : o[1] = "console.error"
                   /\ ~hbs'.partialsRegistered
                   /\ ctx'[c].pc # "failed"
          /\ (/\ Stepped(c) /\ renders' = renders + 1
              /\ ctx'[c].error # "MissingTemplateError"
              /\ ListingFails(hbs) \/ ReadingFails(hbs)
              /\ \E d \in Ctxs : PastRegistration(ctx[d]))
                => /\ ctx'[c].pc = "glob"
                   /\ \A i \in 1..Len(hbs.partialsPath) :
                         <<"glob", hbs.partialsPath[i]>> \in ev'.ops]_vars

\* C12 witness: with caching enabled and a partial that cannot be read, a
\* render that started after a render of its name had completed is in the
\* listing of a new registration pass.
C12_Witness ==
    \E c \in Ctxs :
        /\ ~hbs.disableCache
        /\ ReadingFails(hbs)
        /\ ctx[c].first = "ok"
        /\ ctx[c].pc = "glob"

\* C13: with caching disabled, every render that gets past template
\* resolution starts a registration pass, goes from there to reading its
\* template file, compiles what it read, gets the default layout only by
\* building it in that same render, and no step writes the path cache.
C13_DisableCacheRedoesAll ==
    [][\A c \in Ctxs :
          (hbs.disableCache /\ Stepped(c))
             => /\ (renders' = renders + 1
                       /\ ctx'[c].error # "MissingTemplateError")
                      => Registering(ctx'[c])
                /\ (Registering(ctx[c]) /\ ~Registering(ctx'[c]))
                      => /\ ctx'[c].pc = "readTpl"
                         /\ <<"readFile", ctx[c].tplPath.v>> \in ev'.ops
                /\ (ctx[c].pc = "readTpl" /\ ReadOk(ctx[c].tplPath.v))
                      => <<"compile", ctx[c].tplPath.v>> \in ev'.ops
                /\ ctx'[c].pc = "ready"
                      => ctx[c].pc \in {"dlPass", "dlRead"}
                /\ hbs'.pathCache = hbs.pathCache]_vars

\* C13 witness: with caching disabled, a render that started after a
\* render of its name had completed, and with that render's entry still
\* in the cache, is reading the template file again.
C13_Witness ==
    \E c \in Ctxs :
        /\ hbs.disableCache
        /\ ctx[c].first = "ok"
        /\ HasOwn(hbs.cache, ctx[c].tpl)
        /\ ctx[c].pc = "readTpl"

\* a middleware() call was made in this step
Configured == app'.calls = app.calls + 1

\* C14: a middleware() call whose options name no viewPath raises
\* BadOptionsError and changes nothing: the instance (its fields, its
\* helpers) is as before and no render function is created; and while no
\* call has succeeded, no render has started.
C14_BadOptionsChangeNothing ==
    [][/\ (Configured /\ BadOptions(app'.options))
            => /\ app'.error = "BadOptionsError"
               /\ hbs' = hbs
               /\ app'.render = app.render
               /\ UNCHANGED <<ctx, renders>>
       /\ ~app'.render
            => (renders' = 0 /\ \A c \in Ctxs : ctx'[c] = IdleCtx)]_vars

\* C14 witness: a configured instance that has rendered was configured
\* again without viewPath, and the call failed.
C14_Witness ==
    /\ app.error = "BadOptionsError"
    /\ BadOptions(app.options)
    /\ app.render
    /\ renders > 0

\* C20: a middleware() call that succeeds leaves the path cache, the
\* entry cache, the default-layout slot and the block store empty and the
\* registered flag false; every render resolves a relative name against
\* the view roots of the present options, and the default layout a render
\* is handed is the one the present options name.
C20_ReconfigureDiscardsMemo ==
    [][/\ (Configured /\ ~BadOptions(app'.options))
            => /\ hbs'.pathCache = EmptyObj
               /\ hbs'.cache = EmptyObj
               /\ hbs'.layoutTemplate = NoFn
               /\ hbs'.blocks = EmptyObj
               /\ ~hbs'.partialsRegistered
       /\ \A c \in Ctxs :
            /\ (/\ Stepped(c) /\ renders' = renders + 1
                /\ ~IsAbsolute(ctx'[c].tpl))
                  => ctx'[c].tplPath = Resolution(hbs, ctx'[c].tpl)
            /\ (Stepped(c) /\ ctx'[c].pc = "ready")
                  => ctx'[c].layoutTemplate = DefaultLayoutOf(hbs)]_vars

\* C15: a render whose body has been rendered has, in the same step,
\* rendered its layout (or failed calling it), so no state lies between
\* the two; and each helper call of a render finds its block's array as
\* the render's previous call on that block left it.
C15_BodyAndLayoutInOneStep ==
    \A c \in Ctxs :
        /\ HasOwn(ctx[c].locals, "body")
              => \/ ctx[c].pc = "done" /\ ctx[c].body # Undefined
                 \/ ctx[c].pc = "failed" /\ ctx[c].error = "TypeError"
        /\ \A i, j \in 1..Len(ctx[c].calls) :
              NextOnBlock(ctx[c].calls, i, j)
                 => ctx[c].calls[j].arr = LeftBy(ctx[c].calls[i])

\* C15 witness: a render whose body contributed to a block and whose
\* layout retrieved it has completed while another render is in flight.
C15_Witness ==
    \E c, d \in Ctxs :
        /\ c # d
        /\ InFlight(d)
        /\ Done(c)
        /\ \E i, j \in 1..Len(ctx[c].calls) :
              /\ NextOnBlock(ctx[c].calls, i, j)
              /\ ctx[c].calls[i].helper = "contentFor"
              /\ ctx[c].calls[j].helper = "block"

\* C16: the step that starts a render of an absolute name makes no
\* existence probe, takes <name><ext> as the template path and leaves the
\* path cache as it was; the path cache never holds an absolute name.
C16_AbsoluteNameBypassesRoots ==
    [][\A c \in Ctxs :
          (/\ Stepped(c) /\ renders' = renders + 1
           /\ IsAbsolute(ctx'[c].tpl))
             => /\ \A o \in ev'.ops : o[1] # "stat"
                /\ ctx'[c].tplPath = Str(ctx'[c].tpl \o hbs.extname)
                /\ hbs'.pathCache = hbs.pathCache
                /\ \A t \in DOMAIN hbs'.pathCache : ~IsAbsolute(t)]_vars

\* C17: a render whose merged data has a falsy layout field (false, '',
\* null, 0) and whose template loads never waits for a layout file, and
\* it finishes by completing with the passthrough layout and the raw body
\* render as its response body.
C17_FalsyLayoutIsNoLayout ==
    \A c \in Ctxs :
        (/\ Loaded(c)
         /\ HasOwn(ctx[c].locals, "layout")
         /\ Falsy(ctx[c].locals["layout"]))
            => /\ ctx[c].pc \notin {"readLayout", "dlRead"}
               /\ Finished(c)
                    => /\ Done(c)
                       /\ ctx[c].layoutTemplate = Compile(PassthroughSrc)
                       /\ ctx[c].body = RawBody(c)

\* C18: the step that starts a render of a relative name resolves it to
\* the file under the lowest-indexed view root that has one, or to nothing
\* when no root has one; with caching enabled a path found is stored under
\* the name, a name that resolved to nothing is not stored, and the path
\* cache holds for every relative name the path it resolves to, so later
\* renders resolve it to the same path.
C18_FirstRootWinsAndIsCached ==
    [][\A c \in Ctxs :
          (/\ Stepped(c) /\ renders' = renders + 1
           /\ ~IsAbsolute(ctx'[c].tpl))
             => LET tpl == ctx'[c].tpl
                    res == Resolution(hbs, tpl)
                IN  /\ ctx'[c].tplPath = res
                    /\ res = Undefined => ~HasOwn(hbs'.pathCache, tpl)
                    /\ (res # Undefined /\ ~hbs.disableCache)
                          => Get(hbs'.pathCache, tpl) = res
                    /\ \A t \in DOMAIN hbs'.pathCache :
                          ~IsAbsolute(t)
                             => hbs'.pathCache[t] = Resolution(hbs, t)]_vars

\* C18 witness: a name that two view roots hold, resolved to the first
\* root's file by a render that found the path in the cache.
C18_Witness ==
    \E c \in Ctxs :
        /\ ctx[c].tpl = "post"
        /\ ctx[c].first = "ok"
        /\ ~hbs.disableCache
        /\ StatOk(UnderRoot(hbs, 1, "post")) /\ StatOk(UnderRoot(hbs, 2, "post"))
        /\ Get(hbs.pathCache, "post") = Str(UnderRoot(hbs, 1, "post"))
        /\ ctx[c].tplPath = Str(UnderRoot(hbs, 1, "post"))

\* C19: the data.koa handed to the body render and the layout render of
\* a request is that request's own context, whatever other renders were
\* in flight and whichever ran before it.
C19_HelpersSeeOwnContext ==
    \A c \in Ctxs :
        HasOwn(ctx[c].locals, "body")
            => /\ ctx[c].koa = c
               /\ Done(c) /\ ev.by = c => hbs.koa = c

\* C19 witness: two requests whose renders of one name overlapped have
\* both completed, each having run its templates.
C19_Witness ==
    \E c, d \in Ctxs :
        /\ c # d
        /\ Done(c) /\ Done(d)
        /\ ctx[c].tpl = ctx[d].tpl
        /\ ctx[c].first = "new" /\ ctx[d].first = "new"
        /\ ctx[c].calls # <<>> /\ ctx[d].calls # <<>>

=============================================================================
